---- MODULE Spec2Model ----
(***************************************************************************)
(* Model of brie_daw/src/audio.rs: the sample buffer (SoundData), the      *)
(* range-scoped map (iter_mask / apply_conditional_map), the WAV header    *)
(* and container record (WavHeader, WavFile), the export through bincode   *)
(* and the playback thread started by play_sound.                          *)
(*                                                                         *)
(* Machine integers keep a width.  TLC's integers are 32 bits wide, so     *)
(* the widths of u16, u32 and usize are scaled down (U16_BITS < U32_BITS   *)
(* < USIZE_BITS, as in the build); i16 and bytes keep their real ranges.   *)
(* Rust integer arithmetic that leaves its type panics when the build      *)
(* checks overflow (the debug profile) and wraps when it does not (the     *)
(* release profile): overflow_checks is the profile of the build.          *)
(***************************************************************************)
EXTENDS Integers, Sequences, FiniteSets, TLC

VARIABLES
    wav_settings,     \* SoundData.wav_settings: [channel_count, sample_rate]
    samples,          \* SoundData.samples: Vec<i16>
    overflow_checks,  \* the build panics on integer overflow (TRUE) or wraps
    panicked,         \* the owner's thread has panicked
    last,             \* the owner's last call: its name, arguments, receiver before it, outcome
    wav_file,         \* <<>> or <<WavFile>>: the container record built last
    file,             \* the bytes the destination File holds
    thread,           \* the playback thread spawned by the last play_sound
    played            \* SoundData.samples at the moment of that play_sound call

vars == <<wav_settings, samples, overflow_checks, panicked, last, wav_file, file, thread, played>>

----------------------------------------------------------------------------
(* Bounds of the model *)

MaxLen == 3
U16_BITS == 5
U32_BITS == 8
USIZE_BITS == 10

U16_MOD == 2 ^ U16_BITS
U32_MOD == 2 ^ U32_BITS
USIZE_MOD == 2 ^ USIZE_BITS
U16_MAX == U16_MOD - 1
U32_MAX == U32_MOD - 1
USIZE_MAX == USIZE_MOD - 1

I16_MIN == -32768
I16_MAX == 32767

Min(a, b) == IF a <= b THEN a ELSE b

(* The i16 values samples are drawn from. *)
SampleVals == {I16_MIN, 5}

(* Vec<i16> contents of the bounded model: every short vector, and (for   *)
(* the container record) one vector longer than the WAV header size.       *)
LongSamples == [k \in 1..(44 + MaxLen) |-> 5]

ShortBuffers == UNION {[1..n -> SampleVals] : n \in 0..MaxLen}

(* WavSettings values: mono and stereo at a rate whose byte rate fits,     *)
(* zero channels and rate, the largest channel count, the largest rate.    *)
Formats ==
    { [channel_count |-> 1, sample_rate |-> 100],
      [channel_count |-> 2, sample_rate |-> 10],
      [channel_count |-> 0, sample_rate |-> 0],
      [channel_count |-> U16_MAX, sample_rate |-> 1],
      [channel_count |-> 1, sample_rate |-> U32_MAX] }

(* usize arguments of set_sample and of the Range of conditional_map. *)
Indexes == {0, 1, USIZE_MAX \div 2 + 1, USIZE_MAX}
Channels == {0, 1, 2, USIZE_MAX}
RangeStarts == 0..MaxLen
RangeEnds == (0..(MaxLen + 1)) \cup {USIZE_MAX}

(* The pure functions Fn(i16) -> i16 handed to conditional_map. *)
Fns == {"not", "zero"}

Apply(f, x) ==
    IF f = "not" THEN -x - 1 ELSE 0

----------------------------------------------------------------------------
(* Integer arithmetic of the build: the value x of an expression of a type *)
(* with modulus mod.                                                       *)
Arith(x, mod) ==
    IF x >= 0 /\ x < mod
    THEN [panic |-> FALSE, val |-> x]
    ELSE IF overflow_checks
         THEN [panic |-> TRUE, val |-> 0]
         ELSE [panic |-> FALSE, val |-> x % mod]

----------------------------------------------------------------------------
(* iter_mask(range): range.end booleans, the n-th (from 0) being           *)
(* range.contains(n), i.e. start <= n < end.                               *)
iter_mask(start, end) ==
    [k \in 1..end |-> start <= k - 1 /\ k - 1 < end]

(* apply_conditional_map: zip stops at the shorter of the two iterators,    *)
(* the samples and the range.end items of the mask.                         *)
apply_conditional_map(s, start, end, f) ==
    LET mask == iter_mask(start, end)
        n == Min(Len(s), end)
    IN [k \in 1..n |-> IF mask[k] THEN Apply(f, s[k]) ELSE s[k]]

(* SoundData::conditional_map: a new SoundData, self untouched. *)
conditional_map(self, start, end, f) ==
    [wav_settings |-> self.wav_settings,
     samples |-> apply_conditional_map(self.samples, start, end, f)]

(* A set_sample offset that leaves the channel out. *)
set_sample_index_without_channel(self, index, channel) ==
    Arith(index * self.wav_settings.channel_count, USIZE_MOD)

(* The flat offset set_sample computes, in usize. *)
set_sample_index(self, index, channel) ==
    LET m == Arith(index * self.wav_settings.channel_count, USIZE_MOD)
    IN IF m.panic THEN m ELSE Arith(m.val + channel, USIZE_MOD)

(* A set_sample that rejects a channel outside the frame. *)
set_sample_channel_checked(self, index, channel, new_sample) ==
    LET off == set_sample_index(self, index, channel)
    IN IF off.panic
       THEN [result |-> "panic", samples |-> self.samples]
       ELSE IF off.val < Len(self.samples) /\ channel < self.wav_settings.channel_count
            THEN [result |-> "true",
                  samples |-> [self.samples EXCEPT ![off.val + 1] = new_sample]]
            ELSE [result |-> "false", samples |-> self.samples]

(* SoundData::set_sample: the outcome ("true", "false" or "panic") and the *)
(* samples afterwards.                                                     *)
set_sample(self, index, channel, new_sample) ==
    LET off == set_sample_index(self, index, channel)
    IN IF off.panic
       THEN [result |-> "panic", samples |-> self.samples]
       ELSE IF off.val < Len(self.samples)
            THEN [result |-> "true",
                  samples |-> [self.samples EXCEPT ![off.val + 1] = new_sample]]
            ELSE [result |-> "false", samples |-> self.samples]

Self == [wav_settings |-> wav_settings, samples |-> samples]

----------------------------------------------------------------------------
(* No playback thread has been spawned. *)
NoThread == [pc |-> "none", buffer |-> <<>>, sample_rate |-> 0, streamed |-> <<>>]

InitWith(buffers) ==
    /\ wav_settings \in Formats
    /\ samples \in buffers
    /\ overflow_checks \in BOOLEAN
    /\ panicked = FALSE
    /\ last = [op |-> "none"]
    /\ wav_file = <<>>
    /\ file = <<>>
    /\ thread = NoThread
    /\ played = <<>>

Init == InitWith(ShortBuffers)

SetSampleWith(indexes, channels) ==
    /\ ~panicked
    /\ \E index \in indexes, channel \in channels, new_sample \in SampleVals :
          LET r == set_sample(Self, index, channel, new_sample)
          IN /\ samples' = r.samples
             /\ panicked' = (r.result = "panic")
             /\ last' = [op |-> "set_sample", index |-> index, channel |-> channel,
                         new_sample |-> new_sample, pre |-> Self, result |-> r.result]
    /\ UNCHANGED <<wav_settings, overflow_checks, wav_file, file, thread, played>>

SetSample == SetSampleWith(Indexes, Channels)

ConditionalMapWith(starts, ends, fns) ==
    /\ ~panicked
    /\ \E start \in starts, end \in ends, f \in fns :
          last' = [op |-> "conditional_map", start |-> start, end |-> end, f |-> f,
                   pre |-> Self, result |-> conditional_map(Self, start, end, f)]
    /\ UNCHANGED <<wav_settings, samples, overflow_checks, panicked, wav_file, file,
                   thread, played>>

ConditionalMap == ConditionalMapWith(RangeStarts, RangeEnds, Fns)

NextBuffer == SetSample \/ ConditionalMap

SpecBuffer == Init /\ [][NextBuffer]_vars

----------------------------------------------------------------------------
(* WavHeader's associated constants. *)
RIFF == <<82, 73, 70, 70>>
WAVE == <<87, 65, 86, 69>>
FMT == <<102, 109, 116, 32>>
DATA == <<100, 97, 116, 97>>
FORMAT_SIZE == 16
FORMAT_TYPE == 1
HEADER_SIZE == 44
BYTES_PER_SAMPLE == 2

(* WavHeader::new: the struct expression's fields are evaluated in the     *)
(* order written; the first arithmetic overflow of a checked build panics.  *)
WavHeader_new(file_size, settings) ==
    LET rate2 == Arith(settings.sample_rate * BYTES_PER_SAMPLE, U32_MOD)
        byte_rate == IF rate2.panic THEN rate2
                     ELSE Arith(rate2.val * settings.channel_count, U32_MOD)
        bytes_per_chunk == Arith(BYTES_PER_SAMPLE * settings.channel_count, U16_MOD)
        bits_per_sample == Arith(BYTES_PER_SAMPLE * 8, U16_MOD)
        data_size == Arith(file_size - HEADER_SIZE, U32_MOD)
    IN [panic |-> byte_rate.panic \/ bytes_per_chunk.panic \/ bits_per_sample.panic
                      \/ data_size.panic,
        header |-> [riff |-> RIFF,
                    file_size |-> file_size,
                    wave |-> WAVE,
                    fmt |-> FMT,
                    format_size |-> FORMAT_SIZE,
                    format_type |-> FORMAT_TYPE,
                    channel_count |-> settings.channel_count,
                    sample_rate |-> settings.sample_rate,
                    byte_rate |-> byte_rate.val,
                    bytes_per_chunk |-> bytes_per_chunk.val,
                    bits_per_sample |-> bits_per_sample.val,
                    data |-> DATA,
                    data_size |-> data_size.val]]

(* WavFile::new: the header is built from samples.len() as u32 (the cast    *)
(* truncates, it never panics).                                             *)
WavFile_new(sound_data) ==
    LET h == WavHeader_new(Len(sound_data.samples) % U32_MOD, sound_data.wav_settings)
    IN [panic |-> h.panic,
        wav_file |-> [header |-> h.header, samples |-> sound_data.samples]]

(* bincode::serialize (fixed-width integers, little endian): n bytes of an  *)
(* unsigned value, least significant first.                                 *)
RECURSIVE LittleEndian(_, _)
LittleEndian(v, n) ==
    IF n = 0 THEN <<>> ELSE <<v % 256>> \o LittleEndian(v \div 256, n - 1)

(* An i16 as its two's complement u16. *)
TwosComplement16(x) == x % 65536

(* bincode::serialize of a Vec<i16>: a u64 element count, then the elements. *)
serialize_samples(s) ==
    LittleEndian(Len(s), 8) \o
    [k \in 1..(2 * Len(s)) |->
        LittleEndian(TwosComplement16(s[(k + 1) \div 2]), 2)[((k - 1) % 2) + 1]]

(* bincode::serialize of a WavHeader: the fields in declaration order; a    *)
(* fixed-size array [u8; 4] carries no length.                              *)
serialize_header(h) ==
    h.riff \o LittleEndian(h.file_size, 4) \o h.wave \o h.fmt
        \o LittleEndian(h.format_size, 4) \o LittleEndian(h.format_type, 2)
        \o LittleEndian(h.channel_count, 2) \o LittleEndian(h.sample_rate, 4)
        \o LittleEndian(h.byte_rate, 4) \o LittleEndian(h.bytes_per_chunk, 2)
        \o LittleEndian(h.bits_per_sample, 2) \o h.data
        \o LittleEndian(h.data_size, 4)

(* bincode::serialize of a WavFile: header, then samples. *)
serialize(w) == serialize_header(w.header) \o serialize_samples(w.samples)

(* WavFile::new on a clone of the owner's SoundData. *)
WavFileNew ==
    /\ ~panicked
    /\ LET r == WavFile_new(Self)
       IN /\ panicked' = r.panic
          /\ wav_file' = IF r.panic THEN wav_file ELSE <<r.wav_file>>
          /\ last' = [op |-> "WavFile::new", pre |-> Self,
                      result |-> IF r.panic THEN "panic" ELSE "ok"]
    /\ UNCHANGED <<wav_settings, samples, overflow_checks, file, thread, played>>

(* WavFile::export to a fresh destination: every byte is written. *)
ExportOk ==
    /\ ~panicked
    /\ wav_file # <<>>
    /\ file' = serialize(wav_file[1])
    /\ last' = [op |-> "export", pre |-> wav_file[1], result |-> "Ok"]
    /\ UNCHANGED <<wav_settings, samples, overflow_checks, panicked, wav_file, thread,
                   played>>

(* WavFile::export whose write_all fails: some of the bytes may be written. *)
ExportFileError ==
    /\ ~panicked
    /\ wav_file # <<>>
    /\ LET bytes == serialize(wav_file[1])
       IN \E n \in 0..(Len(bytes) - 1) : file' = SubSeq(bytes, 1, n)
    /\ last' = [op |-> "export", pre |-> wav_file[1], result |-> "FileError"]
    /\ UNCHANGED <<wav_settings, samples, overflow_checks, panicked, wav_file, thread,
                   played>>

InitWav == InitWith(ShortBuffers \cup {LongSamples})

NextWav == WavFileNew \/ ExportOk \/ ExportFileError

SpecWav == InitWav /\ [][NextWav]_vars

----------------------------------------------------------------------------
(* Playback.  *x as f32 / (i16::MAX as f32): the quotient, kept as a        *)
(* fraction.                                                                *)
to_f32(x) == [num |-> x, den |-> I16_MAX]

(* The Vec<f32> play_sound collects before it spawns the thread. *)
play_sound_buffer(s) == [k \in 1..Len(s) |-> to_f32(s[k])]

(* A playback thread that reads the owner's samples while it streams. *)
stream_source_shared == play_sound_buffer(samples)

(* The samples the thread streams: the buffer moved into its closure. *)
stream_source == thread.buffer

ThreadEnded == thread.pc \in {"none", "ok", "play_error", "panicked"}

(* SoundData::play_sound: copies and converts the samples, copies the rate, *)
(* spawns the thread.  The model follows one playback thread at a time.     *)
PlaySound ==
    /\ ~panicked
    /\ ThreadEnded
    /\ thread' = [pc |-> "spawned", buffer |-> play_sound_buffer(samples),
                  sample_rate |-> wav_settings.sample_rate, streamed |-> <<>>]
    /\ played' = samples
    /\ last' = [op |-> "play_sound", pre |-> Self]
    /\ UNCHANGED <<wav_settings, samples, overflow_checks, panicked, wav_file, file>>

(* OutputStream::try_default() returns a device. *)
OutputStreamOk ==
    /\ thread.pc = "spawned"
    /\ thread' = [thread EXCEPT !.pc = "device"]
    /\ UNCHANGED <<wav_settings, samples, overflow_checks, panicked, last, wav_file, file,
                   played>>

(* OutputStream::try_default() fails and expect panics the thread. *)
OutputStreamFails ==
    /\ thread.pc = "spawned"
    /\ thread' = [thread EXCEPT !.pc = "panicked"]
    /\ UNCHANGED <<wav_settings, samples, overflow_checks, panicked, last, wav_file, file,
                   played>>

(* SamplesBuffer::new(1, sample_rate, buffer), which panics on a zero       *)
(* sample rate, and total_duration().expect(..), which is always Some.      *)
SamplesBufferNew ==
    /\ thread.pc = "device"
    /\ thread' = [thread EXCEPT !.pc = IF thread.sample_rate = 0 THEN "panicked"
                                                                  ELSE "ready"]
    /\ UNCHANGED <<wav_settings, samples, overflow_checks, panicked, last, wav_file, file,
                   played>>

(* stream_handle.play_raw(samples_buffer) succeeds. *)
PlayRawOk ==
    /\ thread.pc = "ready"
    /\ thread' = [thread EXCEPT !.pc = "playing"]
    /\ UNCHANGED <<wav_settings, samples, overflow_checks, panicked, last, wav_file, file,
                   played>>

(* stream_handle.play_raw(samples_buffer)? returns Err(PlayError). *)
PlayRawErr ==
    /\ thread.pc = "ready"
    /\ thread' = [thread EXCEPT !.pc = "play_error"]
    /\ UNCHANGED <<wav_settings, samples, overflow_checks, panicked, last, wav_file, file,
                   played>>

(* While the thread sleeps, the device takes the next sample. *)
StreamSample ==
    /\ thread.pc = "playing"
    /\ Len(thread.streamed) < Len(stream_source)
    /\ thread' = [thread EXCEPT
                     !.streamed = Append(@, stream_source[Len(thread.streamed) + 1])]
    /\ UNCHANGED <<wav_settings, samples, overflow_checks, panicked, last, wav_file, file,
                   played>>

(* std::thread::sleep(duration) returns and the closure returns Ok(()). *)
SleepDone ==
    /\ thread.pc = "playing"
    /\ thread' = [thread EXCEPT !.pc = "ok"]
    /\ UNCHANGED <<wav_settings, samples, overflow_checks, panicked, last, wav_file, file,
                   played>>

ThreadStep ==
    \/ OutputStreamOk
    \/ OutputStreamFails
    \/ SamplesBufferNew
    \/ PlayRawOk
    \/ PlayRawErr
    \/ StreamSample
    \/ SleepDone

(* The owner's calls made while a playback thread runs. *)
SetSampleDuringPlay == SetSampleWith({0, 1}, {0, 1})
ConditionalMapDuringPlay == ConditionalMapWith({0}, {1, MaxLen + 1}, {"not"})

InitPlay == Init /\ wav_settings.channel_count <= 2

NextPlay == PlaySound \/ SetSampleDuringPlay \/ ConditionalMapDuringPlay \/ ThreadStep

SpecPlay == InitPlay /\ [][NextPlay]_vars

----------------------------------------------------------------------------
(* Claims about the sample buffer and the range-scoped map *)

(* The flat offset of the last set_sample call, as a mathematical integer. *)
LastOffset == last.index * last.pre.wav_settings.channel_count + last.channel

LastIsSetSample == last.op = "set_sample"
LastIsConditionalMap == last.op = "conditional_map"

InRange(p, start, end) == start <= p /\ p < end

(* C1: conditional_map(B, [start, end), f) has the format and the length of *)
(* B, and at every flat position p < len(B) holds f(B[p]) when p is in the  *)
(* range and B[p] otherwise, whatever end is relative to len(B).            *)
C1_MapKeepsLengthAndMapsRange ==
    LastIsConditionalMap =>
        /\ last.result.wav_settings = last.pre.wav_settings
        /\ Len(last.result.samples) = Len(last.pre.samples)
        /\ \A p \in 0..(Len(last.pre.samples) - 1) :
              last.result.samples[p + 1] =
                  IF InRange(p, last.start, last.end)
                  THEN Apply(last.f, last.pre.samples[p + 1])
                  ELSE last.pre.samples[p + 1]

(* C2: a set_sample whose flat offset index * channel_count + channel is    *)
(* below len(B) returns true, leaves v at that offset, and leaves every     *)
(* other position, the length and the format as they were.                  *)
C2_SetSampleInBoundsWrites ==
    (LastIsSetSample /\ LastOffset < Len(last.pre.samples)) =>
        /\ last.result = "true"
        /\ wav_settings = last.pre.wav_settings
        /\ Len(samples) = Len(last.pre.samples)
        /\ \A p \in 0..(Len(samples) - 1) :
              samples[p + 1] = IF p = LastOffset THEN last.new_sample
                                              ELSE last.pre.samples[p + 1]

C2_Witness ==
    /\ LastIsSetSample
    /\ LastOffset < Len(last.pre.samples)
    /\ last.index > 0 /\ last.channel > 0
    /\ last.result = "true"
    /\ samples # last.pre.samples

(* C3: a set_sample whose flat offset is not below len(B), the offsets that *)
(* exceed the machine word included, returns false without panicking and    *)
(* leaves the samples as they were.                                         *)
C3_SetSampleOutOfBoundsRejects ==
    (LastIsSetSample /\ LastOffset >= Len(last.pre.samples)) =>
        /\ last.result = "false"
        /\ samples = last.pre.samples

(* C7: conditional_map over a range with start >= end returns a buffer      *)
(* equal to B: same format, same length, same samples.                      *)
C7_EmptyRangeIsIdentity ==
    (LastIsConditionalMap /\ last.start >= last.end) => last.result = last.pre

(* C10: set_sample depends only on the flat offset: any other (index,       *)
(* channel) with the same offset gives the same outcome and the same        *)
(* samples; a channel >= channel_count with the offset below the length is  *)
(* accepted and writes into a later frame, as set_sample(index + 1,         *)
(* channel - channel_count, v) does.                                        *)
C10_SetSampleDependsOnOffsetOnly ==
    LastIsSetSample =>
        LET cc == last.pre.wav_settings.channel_count
            got == [result |-> last.result, samples |-> samples]
        IN /\ \A i \in Indexes \cup {last.index + 1}, c \in Channels \cup {last.channel - cc} :
                 (i <= USIZE_MAX /\ c >= 0 /\ i * cc + c = LastOffset) =>
                     set_sample(last.pre, i, c, last.new_sample) = got
           /\ (last.channel >= cc /\ LastOffset < Len(last.pre.samples)) =>
                 /\ last.result = "true"
                 /\ samples = [last.pre.samples EXCEPT ![LastOffset + 1] = last.new_sample]
                 /\ cc > 0 => LastOffset \div cc > last.index
           /\ (last.channel >= cc /\ last.index < USIZE_MAX) =>
                 set_sample(last.pre, last.index + 1, last.channel - cc, last.new_sample) = got

C10_Witness ==
    /\ LastIsSetSample
    /\ last.pre.wav_settings.channel_count > 0
    /\ last.channel >= last.pre.wav_settings.channel_count
    /\ LastOffset < Len(last.pre.samples)
    /\ last.result = "true"
    /\ samples # last.pre.samples

----------------------------------------------------------------------------
(* Claims about the container record and its export *)

LastIsWavFileNew == last.op = "WavFile::new"
LastIsExportOk == last.op = "export" /\ last.result = "Ok"

(* The header of the layout table: the tags as ASCII, every other field     *)
(* little endian, in the table's order.                                     *)
LayoutHeader(h) ==
    <<82, 73, 70, 70>> \o LittleEndian(h.file_size, 4)
        \o <<87, 65, 86, 69>> \o <<102, 109, 116, 32>>
        \o LittleEndian(h.format_size, 4) \o LittleEndian(h.format_type, 2)
        \o LittleEndian(h.channel_count, 2) \o LittleEndian(h.sample_rate, 4)
        \o LittleEndian(h.byte_rate, 4) \o LittleEndian(h.bytes_per_chunk, 2)
        \o LittleEndian(h.bits_per_sample, 2) \o <<100, 97, 116, 97>>
        \o LittleEndian(h.data_size, 4)

(* The payload of the layout table: each sample as 2 little-endian bytes,   *)
(* in buffer order.                                                         *)
RECURSIVE LayoutPayload(_)
LayoutPayload(s) ==
    IF s = <<>> THEN <<>>
    ELSE LittleEndian(TwosComplement16(Head(s)), 2) \o LayoutPayload(Tail(s))

(* C4: the header WavFile::new builds for a buffer of N samples has         *)
(* data_size = N * 2.                                                       *)
C4_DataSizeIsTwiceSampleCount ==
    (LastIsWavFileNew /\ last.result = "ok") =>
        wav_file[1].header.data_size = Len(last.pre.samples) * 2

(* C5: building and exporting the record of a buffer with no samples        *)
(* completes without underflow or panic: the header has data_size = 0 and   *)
(* the export is that header followed by no payload byte.                   *)
C5_EmptyBufferExports ==
    /\ (LastIsWavFileNew /\ last.pre.samples = <<>>) =>
          /\ last.result = "ok"
          /\ wav_file[1].header.data_size = 0
    /\ (LastIsExportOk /\ wav_file[1].samples = <<>>) =>
          /\ wav_file[1].header.data_size = 0
          /\ file = LayoutHeader(wav_file[1].header)

(* C6: a successful export writes the 44-byte header of the layout table    *)
(* immediately followed by the N samples as 2 little-endian bytes each, and *)
(* nothing else: 44 + 2 * N bytes.                                          *)
C6_ExportIsHeaderThenPayload ==
    LastIsExportOk =>
        /\ file = LayoutHeader(wav_file[1].header) \o LayoutPayload(wav_file[1].samples)
        /\ Len(file) = 44 + 2 * Len(wav_file[1].samples)

(* C8: for every format descriptor WavHeader::new completes and stores      *)
(* byte_rate = sample_rate * 2 * channel_count, block align = 2 *           *)
(* channel_count and bits_per_sample = 16, as mathematical products.        *)
(* (Stated for the calls whose file_size is at least the header size, so    *)
(* that only the format decides.)                                           *)
C8_HeaderProductsDoNotOverflow ==
    (LastIsWavFileNew /\ Len(last.pre.samples) % U32_MOD >= HEADER_SIZE) =>
        /\ last.result = "ok"
        /\ wav_file[1].header.byte_rate =
              last.pre.wav_settings.sample_rate * 2 * last.pre.wav_settings.channel_count
        /\ wav_file[1].header.bytes_per_chunk = 2 * last.pre.wav_settings.channel_count
        /\ wav_file[1].header.bits_per_sample = 16

----------------------------------------------------------------------------
(* Claims about playback *)

(* What the thread has streamed is a prefix of the converted samples the    *)
(* buffer held when play_sound was called.                                  *)
StreamedIsSnapshot ==
    thread.pc # "none" =>
        /\ Len(thread.streamed) <= Len(played)
        /\ thread.streamed = SubSeq(play_sound_buffer(played), 1, Len(thread.streamed))
        /\ thread.buffer = play_sound_buffer(played)

(* C9: under every interleaving with the owner's later set_sample and       *)
(* conditional_map calls, a playback thread streams the samples the buffer  *)
(* held when play_sound was called, and no step or outcome of the thread    *)
(* changes the owner's samples or format.                                   *)
C9_PlaybackWorksOnSnapshot ==
    /\ []StreamedIsSnapshot
    /\ [][ThreadStep => UNCHANGED <<samples, wav_settings>>]_vars

C9_Witness ==
    /\ thread.pc = "ok"
    /\ Len(thread.streamed) = Len(played)
    /\ Len(played) >= 2
    /\ samples # played
    /\ thread.streamed[Len(played)] # to_f32(samples[Len(played)])

====
